---- MODULE Spec2Model ----
(***************************************************************************)
(* Model of data_converter.py: the data-quality pipeline run on one        *)
(* uploaded table (column clean-up, timestamp building, order check,       *)
(* sort, duplicate removal, date range filter, CSV export) and the         *)
(* re-upload of an exported file.                                          *)
(*                                                                         *)
(* A cell text is a sequence of tokens. A timestamp is an integer number   *)
(* of ticks: day * TicksPerDay + minute * TicksPerMin + second.            *)
(***************************************************************************)
EXTENDS Integers, Sequences, FiniteSets, TLC

VARIABLES pc, source, upload, prev, columns, df, log,
          out_of_order_rows, dupes_log, date_range, df_filtered,
          csv_data_full, csv_data_filtered

vars == <<pc, source, upload, prev, columns, df, log,
          out_of_order_rows, dupes_log, date_range, df_filtered,
          csv_data_full, csv_data_filtered>>

-----------------------------------------------------------------------------
(* Bounds of the explored inputs *)

MaxRows == 3
MaxDay == 1
MaxTod == 1

(* Ticks in one minute: the export format keeps minutes and drops what is
   below them. *)
TicksPerMin == 2

TicksPerDay == ((MaxTod \div TicksPerMin) + 1) * TicksPerMin

Days == 0 .. MaxDay
Tods == 0 .. MaxTod

NaT == -1
NoCount == -1

-----------------------------------------------------------------------------
(* Cell texts *)

DateTok(d) == [k |-> "date", v |-> d]
MinTok(m) == [k |-> "hm", v |-> m]
SecTok(s) == [k |-> "ss", v |-> s]
JunkTok == [k |-> "junk", v |-> 0]

DateText(d) == <<DateTok(d)>>
TimeText(t) == <<MinTok(t \div TicksPerMin), SecTok(t % TicksPerMin)>>
JunkText == <<JunkTok>>
NoText == << >>

(* pd.to_datetime(text, errors="coerce") on one cell: a date, optionally
   followed by hours:minutes, optionally followed by seconds; anything else
   is NaT. *)
to_datetime(txt) ==
  IF Len(txt) = 1 /\ txt[1].k = "date"
    THEN txt[1].v * TicksPerDay
  ELSE IF Len(txt) = 2 /\ txt[1].k = "date" /\ txt[2].k = "hm"
    THEN txt[1].v * TicksPerDay + txt[2].v * TicksPerMin
  ELSE IF Len(txt) = 3 /\ txt[1].k = "date" /\ txt[2].k = "hm" /\ txt[3].k = "ss"
    THEN txt[1].v * TicksPerDay + txt[2].v * TicksPerMin + txt[3].v
  ELSE NaT

(* df["Date"].astype(str) + " " + df["Time"].astype(str) *)
combined_datetime(r) == r.Date \o r.Time

(* a format that leaves the day of the month out, "%m/%Y %H:%M" *)
date_fmt_without_day(ts) ==
  <<DateTok(0), MinTok((ts % TicksPerDay) \div TicksPerMin)>>

(* strftime with date_fmt = "%m/%d/%Y %H:%M" *)
date_fmt(ts) ==
  <<DateTok(ts \div TicksPerDay), MinTok((ts % TicksPerDay) \div TicksPerMin)>>

(* Timestamp.date() and pd.to_datetime(date) *)
DateOf(ts) == ts \div TicksPerDay
Midnight(d) == d * TicksPerDay

-----------------------------------------------------------------------------
(* Column names: sequences of characters, " " being a blank *)

RECURSIVE lstrip(_)
lstrip(name) ==
  IF name # << >> /\ Head(name) = " " THEN lstrip(Tail(name)) ELSE name

RECURSIVE rstrip(_)
rstrip(name) ==
  IF name # << >> /\ name[Len(name)] = " "
    THEN rstrip(SubSeq(name, 1, Len(name) - 1))
    ELSE name

strip(name) == rstrip(lstrip(name))

ColDate == <<"Date">>
ColTime == <<"Time">>
ColLast == <<"Last">>
ColClose == <<"Close">>

Range(s) == {s[i] : i \in DOMAIN s}

HasColumn(cols, c) == c \in Range(cols)

(* df.columns.str.strip() then rename Last -> Close *)
clean_columns(cols) ==
  LET stripped == [i \in DOMAIN cols |-> strip(cols[i])]
  IN [i \in DOMAIN cols |-> IF stripped[i] = ColLast THEN ColClose ELSE stripped[i]]

drop_column(cols, c) == SelectSeq(cols, LAMBDA x : x # c)

-----------------------------------------------------------------------------
(* Tables: sequences of rows [idx, Date, Time, Close]; idx is the index
   label read_csv gave the row (its upload position, from 0). *)

Headers ==
  { << <<" ", "Date">>, <<"Time", " ">>, ColLast >>,
    << <<"Date", " ">>, ColClose >>,
    << ColTime, ColLast >>,
    << ColClose >> }

CellTexts(h) ==
  LET c == clean_columns(h)
  IN IF HasColumn(c, ColDate) /\ HasColumn(c, ColTime)
       THEN {[Date |-> DateText(d), Time |-> TimeText(t)] : d \in Days, t \in Tods}
            \cup {[Date |-> JunkText, Time |-> TimeText(0)],
                  [Date |-> DateText(0), Time |-> JunkText]}
     ELSE IF HasColumn(c, ColDate)
       THEN {[Date |-> DateText(d) \o TimeText(t), Time |-> NoText] : d \in Days, t \in Tods}
            \cup {[Date |-> JunkText, Time |-> NoText]}
     ELSE IF HasColumn(c, ColTime)
       THEN {[Date |-> NoText, Time |-> TimeText(t)] : t \in Tods}
     ELSE {[Date |-> NoText, Time |-> NoText]}

(* pd.read_csv of a file with header h and the given cell texts *)
read_csv(h, cells) ==
  [i \in DOMAIN cells |->
     [idx |-> i - 1, Date |-> cells[i].Date, Time |-> cells[i].Time, Close |-> i]]

Mask(s, keep(_)) ==
  LET F[i \in 0 .. Len(s)] ==
        IF i = 0 THEN << >>
        ELSE IF keep(i) THEN Append(F[i - 1], s[i]) ELSE F[i - 1]
  IN F[Len(s)]

Count(s, P(_)) == Cardinality({i \in DOMAIN s : P(s[i])})

-----------------------------------------------------------------------------
Msg(m, n) == [msg |-> m, n |-> n]

Init ==
  /\ pc = "uploaded"
  /\ source = "upload"
  /\ \E h \in Headers : \E n \in 0 .. MaxRows : \E cells \in [1 .. n -> CellTexts(h)] :
       /\ columns = h
       /\ df = read_csv(h, cells)
  /\ upload = df
  /\ prev = << >>
  /\ log = {}
  /\ out_of_order_rows = << >>
  /\ dupes_log = << >>
  /\ date_range = << >>
  /\ df_filtered = << >>
  /\ csv_data_full = << >>
  /\ csv_data_filtered = << >>

(* lines 29-34 *)
CleanColumnNames ==
  /\ pc = "uploaded"
  /\ columns' = clean_columns(columns)
  /\ pc' = "normalized"
  /\ UNCHANGED <<source, upload, prev, df, log, out_of_order_rows, dupes_log,
                 date_range, df_filtered, csv_data_full, csv_data_filtered>>

-----------------------------------------------------------------------------
(* Timestamp Builder *)

is_na(r) == r.Date = NaT

dropna(s) == Mask(s, LAMBDA i : ~is_na(s[i]))

(* lines 37-64: the table, its columns and the messages after the
   Date/Time combination; t is the table with text cells *)
CombineDateTime(cols, t) ==
  IF HasColumn(cols, ColDate) /\ HasColumn(cols, ColTime)
    THEN LET parsed == [i \in DOMAIN t |->
                          [t[i] EXCEPT !.Date = to_datetime(combined_datetime(t[i]))]]
             invalid == Count(parsed, is_na)
             before == Len(parsed)
             kept == IF invalid # 0 THEN dropna(parsed) ELSE parsed
             after == Len(kept)
         IN [df |-> [i \in DOMAIN kept |-> [kept[i] EXCEPT !.Time = NoText]],
             columns |-> drop_column(cols, ColTime),
             parsed |-> TRUE,
             log |-> {Msg("combining_date_and_time", NoCount)}
                     \cup (IF invalid # 0
                             THEN {Msg("rows_failed_to_parse", invalid),
                                   Msg("dropped_after_combining", before - after)}
                             ELSE {})]
    ELSE [df |-> t, columns |-> cols, parsed |-> FALSE,
          log |-> {Msg("no_separate_time_column", NoCount)}]

(* lines 67-72: the Date column forced to datetime (a column that already
   holds timestamps is left as it is) and the rows without one dropped *)
EnsureDatetime(c) ==
  LET parsed == IF c.parsed THEN c.df
                ELSE [i \in DOMAIN c.df |->
                        [c.df[i] EXCEPT !.Date = to_datetime(c.df[i].Date)]]
      anynull == \E i \in DOMAIN parsed : is_na(parsed[i])
  IN [df |-> IF anynull THEN dropna(parsed) ELSE parsed,
      log |-> c.log \cup (IF anynull
                            THEN {Msg("invalid_date_values_dropped", NoCount)}
                            ELSE {})]

(* a test that also accepts a table with only a Time column *)
has_date_or_time_column(cols) == HasColumn(cols, ColDate) \/ HasColumn(cols, ColTime)

(* line 67: "Date" in df.columns *)
has_date_column(cols) == HasColumn(cols, ColDate)

(* lines 36-73 and 122-124 *)
BuildTimestamp ==
  /\ pc = "normalized"
  /\ LET c == CombineDateTime(columns, df)
     IN IF has_date_column(c.columns)
          THEN LET e == EnsureDatetime(c)
               IN /\ df' = e.df
                  /\ columns' = c.columns
                  /\ log' = log \cup e.log
                  /\ pc' = "parsed"
          ELSE /\ log' = log \cup c.log \cup {Msg("no_date_column", NoCount)}
               /\ pc' = "stopped"
               /\ UNCHANGED <<df, columns>>
  /\ UNCHANGED <<source, upload, prev, out_of_order_rows, dupes_log,
                 date_range, df_filtered, csv_data_full, csv_data_filtered>>

-----------------------------------------------------------------------------
(* Order and duplicate resolver *)

is_monotonic_increasing(s) ==
  \A i \in DOMAIN s : i > 1 => s[i - 1].Date <= s[i].Date

(* a comparison that also flags a row equal to the one before *)
out_of_order_mask_not_strict(s, i) == i > 1 /\ s[i].Date <= s[i - 1].Date

(* df["Date"] < df["Date"].shift(1): the first row compares with NaT *)
out_of_order_mask(s, i) == i > 1 /\ s[i].Date < s[i - 1].Date

(* lines 78-91 *)
LogOrdering ==
  /\ pc = "parsed"
  /\ IF ~is_monotonic_increasing(df)
       THEN /\ out_of_order_rows' = Mask(df, LAMBDA i : out_of_order_mask(df, i))
            /\ log' = log \cup {Msg("not_in_chronological_order", Len(out_of_order_rows'))}
       ELSE /\ log' = log \cup {Msg("already_in_chronological_order", NoCount)}
            /\ UNCHANGED out_of_order_rows
  /\ pc' = "checked"
  /\ UNCHANGED <<source, upload, prev, columns, df, dupes_log,
                 date_range, df_filtered, csv_data_full, csv_data_filtered>>

Orderings(n) == {f \in [1 .. n -> 1 .. n] : \A i, j \in 1 .. n : f[i] = f[j] => i = j}

(* the table left in upload order *)
sort_values_skipped(s) == {s}

(* df.sort_values(by="Date") with the default kind="quicksort", which is not
   a stable sort: every arrangement of the rows that is ordered by Date *)
sort_values(s) ==
  {t \in {[i \in DOMAIN s |-> s[f[i]]] : f \in Orderings(Len(s))} :
     is_monotonic_increasing(t)}

(* line 94 *)
SortByDate ==
  /\ pc = "checked"
  /\ df' \in sort_values(df)
  /\ pc' = "sorted"
  /\ UNCHANGED <<source, upload, prev, columns, log, out_of_order_rows, dupes_log,
                 date_range, df_filtered, csv_data_full, csv_data_filtered>>

(* duplicated(subset=["Date"], keep="last") *)
duplicated_keep_last(s, i) == \E j \in DOMAIN s : j > i /\ s[j].Date = s[i].Date

(* duplicated(subset=["Date"], keep="first") *)
duplicated(s, i) == \E j \in DOMAIN s : j < i /\ s[j].Date = s[i].Date

(* duplicated(subset=["Date"], keep=False) *)
duplicated_all(s, i) == \E j \in DOMAIN s : j # i /\ s[j].Date = s[i].Date

(* drop_duplicates(subset=["Date"], keep=False) *)
drop_duplicates_keep_none(s) == Mask(s, LAMBDA i : ~duplicated_all(s, i))

(* drop_duplicates(subset=["Date"], keep="first") *)
drop_duplicates(s) == Mask(s, LAMBDA i : ~duplicated(s, i))

(* lines 103-110 *)
make_dupes_log(s) ==
  LET d == Mask(s, LAMBDA i : duplicated_all(s, i))
  IN [i \in DOMAIN d |->
        [row |-> d[i], Action |-> IF duplicated(d, i) THEN "Removed" ELSE "Kept"]]

(* lines 96-120 *)
FixDuplicates ==
  /\ pc = "sorted"
  /\ IF \E i \in DOMAIN df : duplicated(df, i)
       THEN /\ dupes_log' = make_dupes_log(df)
            /\ df' = drop_duplicates(df)
            /\ log' = log \cup {Msg("duplicate_timestamps_found", Len(dupes_log')),
                                Msg("duplicates_removed", NoCount)}
       ELSE /\ log' = log \cup {Msg("no_duplicate_timestamps", NoCount)}
            /\ UNCHANGED <<df, dupes_log>>
  /\ pc' = "cleaned"
  /\ UNCHANGED <<source, upload, prev, columns, out_of_order_rows,
                 date_range, df_filtered, csv_data_full, csv_data_filtered>>

-----------------------------------------------------------------------------
(* Date range filter and export *)

SeqMin(s) == CHOOSE x \in {s[i].Date : i \in DOMAIN s} : \A j \in DOMAIN s : x <= s[j].Date
SeqMax(s) == CHOOSE x \in {s[i].Date : i \in DOMAIN s} : \A j \in DOMAIN s : x >= s[j].Date

(* what st.date_input can return: up to two dates between min_value and
   max_value *)
date_input(min_date, max_date) ==
  LET D == min_date .. max_date
  IN {<< >>} \cup {<<a>> : a \in D} \cup {<<a, b>> : a \in D, b \in D}

(* line 136 *)
in_range(r, start_date, end_date) ==
  r.Date >= Midnight(start_date) /\ r.Date <= Midnight(end_date)

(* a filter that takes a lone endpoint for both ends of the range *)
filter_rows_any_length(s, rng) ==
  IF Len(rng) >= 1
    THEN Mask(s, LAMBDA i : in_range(s[i], rng[1], rng[Len(rng)]))
    ELSE s

(* lines 134-140 *)
filter_rows(s, rng) ==
  IF Len(rng) = 2
    THEN Mask(s, LAMBDA i : in_range(s[i], rng[1], rng[2]))
    ELSE s

(* to_csv(index=False, date_format=date_fmt) *)
to_csv(cols, s) ==
  [header |-> cols,
   rows |-> [i \in DOMAIN s |-> [Date |-> date_fmt(s[i].Date), Close |-> s[i].Close]]]

(* lines 126-154: the date range is read, the filtered table is made and
   both tables are turned into CSV text; an empty table has no minimum date
   to offer and the run ends at the date input *)
FilterAndExport ==
  /\ pc = "cleaned"
  /\ IF df = << >>
       THEN /\ pc' = "failed"
            /\ UNCHANGED <<date_range, df_filtered, csv_data_full, csv_data_filtered>>
       ELSE \E rng \in date_input(DateOf(SeqMin(df)), DateOf(SeqMax(df))) :
              /\ date_range' = rng
              /\ df_filtered' = filter_rows(df, rng)
              /\ csv_data_full' = to_csv(columns, df)
              /\ csv_data_filtered' = to_csv(columns, df_filtered')
              /\ pc' = "exported"
  /\ UNCHANGED <<source, upload, prev, columns, df, log, out_of_order_rows, dupes_log>>

(* the downloaded complete CSV is uploaded again: lines 16-21 on the
   exported text *)
Reupload ==
  /\ pc = "exported"
  /\ columns' = csv_data_full.header
  /\ df' = [i \in DOMAIN csv_data_full.rows |->
              [idx |-> i - 1, Date |-> csv_data_full.rows[i].Date,
               Time |-> NoText, Close |-> csv_data_full.rows[i].Close]]
  /\ upload' = df'
  /\ prev' = df
  /\ source' = "export"
  /\ pc' = "uploaded"
  /\ log' = {}
  /\ out_of_order_rows' = << >>
  /\ dupes_log' = << >>
  /\ date_range' = << >>
  /\ df_filtered' = << >>
  /\ csv_data_full' = << >>
  /\ csv_data_filtered' = << >>

Next ==
  \/ CleanColumnNames
  \/ BuildTimestamp
  \/ LogOrdering
  \/ SortByDate
  \/ FixDuplicates
  \/ FilterAndExport
  \/ Reupload

Spec == Init /\ [][Next]_vars

-----------------------------------------------------------------------------
(* What the claims speak about *)

(* the timestamp an uploaded row stands for: its Date text, followed by its
   Time text when there is a Time column *)
RowTs(r) == to_datetime(r.Date \o r.Time)

Unparseable == Cardinality({i \in DOMAIN upload : RowTs(upload[i]) = NaT})

(* the uploaded rows that have a timestamp, in upload order *)
ParsedUpload ==
  LET F[i \in 0 .. Len(upload)] ==
        IF i = 0 THEN << >>
        ELSE IF RowTs(upload[i]) = NaT THEN F[i - 1]
        ELSE Append(F[i - 1], [idx |-> upload[i].idx, Date |-> RowTs(upload[i]),
                               Time |-> NoText, Close |-> upload[i].Close])
  IN F[Len(upload)]

Timestamps(t) == {t[i].Date : i \in DOMAIN t}

GroupSize(t, ts) == Cardinality({i \in DOMAIN t : t[i].Date = ts})

(* the sum over the groups of rows sharing a timestamp of (group size - 1) *)
RECURSIVE SumExtra(_, _)
SumExtra(t, S) ==
  IF S = {} THEN 0
  ELSE LET ts == CHOOSE x \in S : TRUE
       IN (GroupSize(t, ts) - 1) + SumExtra(t, S \ {ts})

Completed == pc \in {"cleaned", "exported", "failed"}

Reported(m) == \E x \in log : x.msg = m

(* C1: when the pipeline completes, the cleaned table is sorted by timestamp
   and no two of its rows have the same timestamp. *)
C1_SortedNoDuplicates ==
  Completed =>
    \A i, j \in DOMAIN df : i < j => df[i].Date < df[j].Date

C1_Witness ==
  /\ pc = "cleaned"
  /\ Len(df) >= 2
  /\ out_of_order_rows # << >>
  /\ dupes_log # << >>

(* C2: keep-first law: the row of the cleaned table that carries a timestamp
   is, among the uploaded rows with that timestamp, the one with the smallest
   upload position. *)
C2_KeepFirst ==
  Completed =>
    LET t == ParsedUpload
    IN \A i \in DOMAIN df : \A k \in DOMAIN t :
         t[k].Date = df[i].Date => df[i].idx <= t[k].idx

SameRows(a, b) ==
  /\ Len(a) = Len(b)
  /\ \A i \in DOMAIN a : a[i].Date = b[i].Date /\ a[i].Close = b[i].Close

(* C3 as stated: the pipeline run on the export of a cleaned table yields
   that cleaned table again, with no duplicate flagged, whatever the cleaned
   table. *)
C3_Idempotent ==
  (source = "export" /\ Completed) =>
    /\ SameRows(df, prev)
    /\ ~Reported("duplicate_timestamps_found")

WholeMinutes(t) == \A i \in DOMAIN t : t[i].Date % TicksPerMin = 0

(* C3 amended: the pipeline run on the export of a cleaned table whose
   timestamps are all whole minutes yields that cleaned table again: no row
   dropped, order unchanged, no duplicate flagged. *)
C3_IdempotentOnWholeMinutes ==
  (source = "export" /\ Completed /\ WholeMinutes(prev)) =>
    /\ SameRows(df, prev)
    /\ ~Reported("duplicate_timestamps_found")
    /\ ~Reported("invalid_date_values_dropped")

C3_Witness ==
  /\ source = "export"
  /\ pc = "cleaned"
  /\ Len(prev) >= 2
  /\ WholeMinutes(prev)
  /\ \E i \in DOMAIN prev : prev[i].idx # i - 1

Malformed(rng) == Len(rng) # 2 \/ rng[1] > rng[2]

(* C4 as stated: with a range that has not exactly two endpoints, or whose
   start is later than its end, the filtered table is the cleaned table. *)
C4_MalformedRangeNoOp ==
  (pc = "exported" /\ Malformed(date_range)) => df_filtered = df

(* C4 amended: with a range that has not exactly two endpoints the filtered
   table is the cleaned table; with two endpoints and a start later than the
   end the filtered table is empty. *)
C4_RangeWithoutTwoEndpointsNoOp ==
  pc = "exported" =>
    /\ Len(date_range) # 2 => df_filtered = df
    /\ (Len(date_range) = 2 /\ date_range[1] > date_range[2]) => df_filtered = << >>

C4_Witness ==
  /\ pc = "exported"
  /\ Len(date_range) = 1
  /\ Len(df) >= 2
  /\ \E i \in DOMAIN df : DateOf(df[i].Date) # date_range[1]

(* C5: with start = end = day D the filtered table holds the rows of the
   cleaned table dated on day D, whatever their time of day. *)
C5_SingleDayRange ==
  (pc = "exported" /\ Len(date_range) = 2 /\ date_range[1] = date_range[2]) =>
    /\ \A i \in DOMAIN df :
         DateOf(df[i].Date) = date_range[1] => \E k \in DOMAIN df_filtered : df_filtered[k] = df[i]
    /\ \A k \in DOMAIN df_filtered : DateOf(df_filtered[k].Date) = date_range[1]

(* C6: row-count law: the cleaned table has as many rows as the upload,
   minus the rows whose timestamp failed to parse, minus (group size - 1)
   for every group of parseable rows sharing a timestamp. *)
C6_RowCount ==
  Completed =>
    LET t == ParsedUpload
    IN Len(df) = Len(upload) - Unparseable - SumExtra(t, Timestamps(t))

C6_Witness ==
  /\ pc = "cleaned"
  /\ Unparseable > 0
  /\ \E ts \in Timestamps(ParsedUpload) : GroupSize(ParsedUpload, ts) >= 2
  /\ Len(df) >= 1

(* C7: in both branches of the Timestamp Builder the rows whose timestamp
   cannot be parsed are dropped and their number is reported. *)
C7_UnparseableDroppedAndCounted ==
  pc \in {"parsed", "checked"} =>
    /\ df = ParsedUpload
    /\ Unparseable > 0 =>
         \E x \in log :
           /\ x.msg \in {"rows_failed_to_parse", "dropped_after_combining",
                         "invalid_date_values_dropped"}
           /\ x.n = Unparseable

NoDateColumn == ~HasColumn(clean_columns(columns), ColDate)

(* C8: a table without a Date column (after the column names are cleaned)
   gets the missing-Date error and the run halts: no order or duplicate
   diagnostic, no cleaned, filtered or exported table follows. *)
C8_MissingDateHalts ==
  NoDateColumn =>
    /\ pc \in {"uploaded", "normalized", "stopped"}
    /\ pc = "stopped" => Reported("no_date_column")
    /\ df = upload
    /\ out_of_order_rows = << >> /\ dupes_log = << >>
    /\ df_filtered = << >> /\ csv_data_full = << >> /\ csv_data_filtered = << >>
    /\ \A x \in log : x.msg \in {"no_separate_time_column", "no_date_column"}

C8_Witness ==
  /\ pc = "stopped"
  /\ Len(df) >= 1
  /\ HasColumn(columns, ColTime)

InGroup(s, i) == \E j \in DOMAIN s : j # i /\ s[j].Date = s[i].Date
FirstOfGroup(s, i) == \A j \in DOMAIN s : s[j].Date = s[i].Date => i <= j

DuplicateStep ==
  /\ (Reported("duplicate_timestamps_found"))' <=> \E i \in DOMAIN df : InGroup(df, i)
  /\ (\E i \in DOMAIN df : InGroup(df, i)) =>
       /\ {dupes_log'[k].row : k \in DOMAIN dupes_log'} = {df[i] : i \in {j \in DOMAIN df : InGroup(df, j)}}
       /\ Len(dupes_log') = Cardinality({j \in DOMAIN df : InGroup(df, j)})
       /\ \A k \in DOMAIN dupes_log' : \A i \in DOMAIN df :
            dupes_log'[k].row = df[i] =>
              dupes_log'[k].Action = (IF FirstOfGroup(df, i) THEN "Kept" ELSE "Removed")
  /\ ~(\E i \in DOMAIN df : InGroup(df, i)) => dupes_log' = << >>
  /\ {df'[k] : k \in DOMAIN df'} =
       {dupes_log'[k].row : k \in {j \in DOMAIN dupes_log' : dupes_log'[j].Action = "Kept"}}
       \cup {df[i] : i \in {j \in DOMAIN df : ~InGroup(df, j)}}
  /\ \A i, j \in DOMAIN df' : i < j => df'[i].Date < df'[j].Date

(* C9: the duplicate diagnostic agrees with the removal: it is emitted
   exactly when a timestamp occurs twice in the sorted table, lists exactly
   the rows of the groups of two or more, tags the first row of each group
   Kept and the others Removed, and the Kept rows with the non-duplicated
   rows are the cleaned table. *)
C9_DuplicateLogAgrees ==
  [][(pc = "sorted" /\ pc' = "cleaned") => DuplicateStep]_vars

C9_Witness ==
  /\ pc = "cleaned"
  /\ Len(dupes_log) >= 2
  /\ Len(df) >= 2

OrderStep ==
  LET late == {i \in DOMAIN df : i > 1 /\ df[i].Date < df[i - 1].Date}
  IN /\ df = ParsedUpload
     /\ df' = df
     /\ (Reported("not_in_chronological_order"))' <=> late # {}
     /\ Len(out_of_order_rows') = Cardinality(late)
     /\ {out_of_order_rows'[k] : k \in DOMAIN out_of_order_rows'} = {df[i] : i \in late}

(* C10: the out-of-order diagnostic holds exactly the rows of the parsed
   table, in upload order, whose timestamp is smaller than that of the row
   before; it is reported exactly when there is such a row, and computing
   it changes neither the rows nor their order. *)
C10_OutOfOrderLog ==
  [][(pc = "parsed" /\ pc' = "checked") => OrderStep]_vars

C10_Witness ==
  /\ pc = "checked"
  /\ Len(df) = 3
  /\ df[1].Date = df[3].Date
  /\ df[2].Date < df[1].Date
  /\ Len(out_of_order_rows) = 1
  /\ out_of_order_rows[1] = df[2]
====
